---- MODULE Spec2Model ----
(***************************************************************************)
(* A model of set_cpu_freq.py: the CPUFreqManager class and main().        *)
(*                                                                         *)
(* The control files under /sys/devices/system/cpu/cpufreq/<policy>/ are   *)
(* the state.  Text is modelled as a tuple of one-character strings, so    *)
(* that str.strip, str.split, int() and str() are computed, not assumed.   *)
(* A method of the manager is an operator from a "world" (the governor     *)
(* files and the log of the file and console operations of the current     *)
(* run) to the worlds it can leave, one for each way the environment and   *)
(* the operator at the console can answer it.  The process runs one        *)
(* operation and exits; the variables hold what that run did.              *)
(***************************************************************************)
EXTENDS Integers, Sequences, FiniteSets, TLC

VARIABLES
    governor,    \* policy -> text held by <policy>/scaling_governor
    avail_file,  \* policy -> scaling_available_frequencies: [exists, text]
    call,        \* the operation that was run: [op, policy, freqs, args]
    log,         \* its file and console operations, in order
    ret          \* what it returned: [kind, ok, list]

vars == <<governor, avail_file, call, log, ret>>

\* CPUFreqManager.POLICIES
POLICIES == <<"policy0", "policy4", "policy7">>

Policies == {POLICIES[i] : i \in 1..Len(POLICIES)}

----------------------------------------------------------------------------
(* Text: str.strip, str.split, int(), str()                                *)

Digits == <<"0", "1", "2", "3", "4", "5", "6", "7", "8", "9">>

DigitSet == {Digits[i] : i \in 1..10}

DigitVal(c) == (CHOOSE i \in 1..10 : Digits[i] = c) - 1

IsSpace(c) == c \in {" ", "\n"}

RECURSIVE LStrip(_)
LStrip(s) ==
    IF s # <<>> /\ IsSpace(Head(s)) THEN LStrip(Tail(s)) ELSE s

RECURSIVE RStrip(_)
RStrip(s) ==
    IF s # <<>> /\ IsSpace(s[Len(s)]) THEN RStrip(SubSeq(s, 1, Len(s) - 1)) ELSE s

\* str.strip()
Strip(s) == RStrip(LStrip(s))

\* str.lower(), on the letters the prompts are answered with
LowerChar(c) == IF c = "Y" THEN "y" ELSE IF c = "N" THEN "n" ELSE c

Lower(s) == [i \in 1..Len(s) |-> LowerChar(s[i])]

\* where the maximal runs of non-whitespace characters of s start
RunStarts(s) == {i \in 1..Len(s) : ~IsSpace(s[i]) /\ (i = 1 \/ IsSpace(s[i - 1]))}

\* where the run that starts at i ends
RunEnd(s, i) ==
    CHOOSE j \in i..Len(s) :
        /\ \A k \in i..j : ~IsSpace(s[k])
        /\ (j = Len(s) \/ IsSpace(s[j + 1]))

\* str.split(): the maximal runs of non-whitespace characters, in order
Split(s) ==
    LET starts == RunStarts(s)
    IN  [n \in 1..Cardinality(starts) |->
            LET i == CHOOSE x \in starts : Cardinality({y \in starts : y < x}) = n - 1
            IN  SubSeq(s, i, RunEnd(s, i))]

RECURSIVE DigitsValue(_, _)
DigitsValue(s, acc) ==
    IF s = <<>> THEN acc ELSE DigitsValue(Tail(s), 10 * acc + DigitVal(Head(s)))

AllDigits(s) == s # <<>> /\ \A i \in 1..Len(s) : s[i] \in DigitSet

\* int(text): surrounding whitespace and one sign are accepted; anything else
\* raises ValueError (ok = FALSE)
ParseInt(text) ==
    LET s == Strip(text)
        signed == s # <<>> /\ s[1] \in {"-", "+"}
        body == IF signed THEN Tail(s) ELSE s
    IN  IF AllDigits(body)
        THEN [ok |-> TRUE,
              v |-> IF signed /\ s[1] = "-"
                    THEN 0 - DigitsValue(body, 0)
                    ELSE DigitsValue(body, 0)]
        ELSE [ok |-> FALSE, v |-> 0]

\* str(n) of an int
RECURSIVE ToStr(_)
ToStr(n) ==
    IF n < 0 THEN <<"-">> \o ToStr(0 - n)
    ELSE IF n < 10 THEN <<Digits[n + 1]>>
    ELSE Append(ToStr(n \div 10), Digits[(n % 10) + 1])

\* " ".join(str(x) for x in list)
RECURSIVE JoinInts(_)
JoinInts(list) ==
    IF list = <<>> THEN <<>>
    ELSE IF Len(list) = 1 THEN ToStr(list[1])
    ELSE ToStr(list[1]) \o <<" ">> \o JoinInts(Tail(list))

----------------------------------------------------------------------------
(* sorted(frequencies, reverse=True)                                       *)

\* where s[k] stands in the sorted list: after every greater element, and
\* after the equal ones that stand before it in s (the sort is stable)
PlaceDesc(s, k) ==
    Cardinality({j \in 1..Len(s) : s[j] > s[k]})
    + Cardinality({j \in 1..(k - 1) : s[j] = s[k]}) + 1

\* sorted(frequencies), were reverse=True left out
SortedForward(s) ==
    [i \in 1..Len(s) |->
        s[CHOOSE k \in 1..Len(s) :
            Cardinality({j \in 1..Len(s) : s[j] < s[k]})
            + Cardinality({j \in 1..(k - 1) : s[j] = s[k]}) + 1 = i]]

SortedReverse(s) ==
    [i \in 1..Len(s) |-> s[CHOOSE k \in 1..Len(s) : PlaceDesc(s, k) = i]]

----------------------------------------------------------------------------
(* get_available_frequencies                                               *)

\* [int(freq) for freq in content.split()]: ok = FALSE when a token raises
ParseTokens(tokens) ==
    [ok |-> \A i \in 1..Len(tokens) : ParseInt(tokens[i]).ok,
     list |-> [i \in 1..Len(tokens) |-> ParseInt(tokens[i]).v]]

\* get_available_frequencies(policy), as a function of the file
AvailableOf(file) ==
    IF ~file.exists THEN <<>>
    ELSE LET content == Strip(file.text)
         IN  IF content = <<>> THEN <<>>
             ELSE LET parsed == ParseTokens(Split(content))
                  IN  IF parsed.ok THEN SortedReverse(parsed.list) ELSE <<>>

----------------------------------------------------------------------------
(* The log of a run: one record per file operation, prompt or call         *)

NONE == "<None>"

\* a file operation or a call: text is a governor's name, hz a frequency
Ev(op, file, policy, hz, text, ok) ==
    [op |-> op, file |-> file, policy |-> policy, hz |-> hz, text |-> text,
     line |-> <<>>, list |-> <<>>, ok |-> ok]

\* scaling_available_frequencies read through get_available_frequencies, which
\* gave list
EvAvailable(policy, list) ==
    [Ev("read", "scaling_available_frequencies", policy, 0, "", TRUE)
     EXCEPT !.list = list]

\* a prompt answered: line is what was typed, ok whether it was taken
EvInput(prompt, policy, hz, line, ok) ==
    [op |-> "input", file |-> prompt, policy |-> policy, hz |-> hz, text |-> "",
     line |-> line, list |-> <<>>, ok |-> ok]

\* A method runs in a world w and leaves a set of worlds, one for each way the
\* environment can answer it:
\*   w.gov     policy -> name held by scaling_governor
\*   w.avail   policy -> get_available_frequencies of the file (the files do
\*             not change during a run, so each is parsed once per run)
\*   w.log     the operations so far
\*   w.faults  how many more times the environment may depart from the plain
\*             course in this run (a file operation raising, the kernel
\*             reporting another frequency than the one written)
\*   w.ret     the value the last method returned
Step(w, ev, val) == [w EXCEPT !.log = Append(@, ev), !.ret = val]

Faulted(w) == [w EXCEPT !.faults = @ - 1]

\* the lines typed at a (y/n) prompt
Answers == {<<"y">>, <<"Y", " ">>, <<"n">>}

\* confirm = input(...).strip().lower();  confirm == 'y'
Confirmed(answer) == Lower(Strip(answer)) = <<"y">>

----------------------------------------------------------------------------
(* CPUFreqManager: reads                                                   *)

\* get_available_frequencies(policy)
get_available_frequencies(w, policy) ==
    Step(w, EvAvailable(policy, w.avail[policy]), w.avail[policy])

\* get_current_frequency(policy) after frequency was written: [ok, hz], with
\* ok = FALSE for None
get_current_frequency(w, policy, frequency) ==
    {Step(w, Ev("read", "scaling_cur_freq", policy, frequency, "", TRUE),
          [ok |-> TRUE, hz |-> frequency])}
    \cup
    (IF w.faults > 0
     THEN {Step(Faulted(w), Ev("read", "scaling_cur_freq", policy, frequency + 1, "", TRUE),
                [ok |-> TRUE, hz |-> frequency + 1]),
           Step(Faulted(w), Ev("read", "scaling_cur_freq", policy, 0, "", FALSE),
                [ok |-> FALSE, hz |-> 0])}
     ELSE {})

\* get_current_governor(policy): the governor's name, NONE when the read raises
get_current_governor(w, policy) ==
    {Step(w, Ev("read", "scaling_governor", policy, 0, w.gov[policy], TRUE),
          w.gov[policy])}
    \cup
    (IF w.faults > 0
     THEN {Step(Faulted(w), Ev("read", "scaling_governor", policy, 0, NONE, FALSE), NONE)}
     ELSE {})

----------------------------------------------------------------------------
(* CPUFreqManager: writes                                                  *)

\* set_governor(policy, governor)
set_governor(w, policy, gov_name) ==
    {Step([w EXCEPT !.gov[policy] = gov_name],
          Ev("write", "scaling_governor", policy, 0, gov_name, TRUE), TRUE)}
    \cup
    (IF w.faults > 0
     THEN {Step(Faulted(w), Ev("write", "scaling_governor", policy, 0, gov_name, FALSE),
                FALSE)}
     ELSE {})

Returned(w, policy, val) == Step(w, Ev("return", "set_frequency", policy, 0, "", val), val)

Elems(list) == {list[i] : i \in 1..Len(list)}

\* lines 120-126, were a frequency that differs after the write a failure
verify_setspeed_strict(w, policy, frequency) ==
    {IF current.ret.ok /\ current.ret.hz = frequency
     THEN Returned(current, policy, TRUE)
     ELSE Returned(current, policy, FALSE)
     : current \in get_current_frequency(w, policy, frequency)}

\* set_frequency, lines 120-126: the frequency is read back and compared
verify_setspeed(w, policy, frequency) ==
    {IF current.ret.ok /\ current.ret.hz = frequency
     THEN Returned(current, policy, TRUE)
     ELSE Returned(current, policy, TRUE)
     : current \in get_current_frequency(w, policy, frequency)}

\* set_frequency, lines 113-129: the write of scaling_setspeed
write_setspeed(w, policy, frequency) ==
    verify_setspeed(Step(w, Ev("write", "scaling_setspeed", policy, frequency, "", TRUE),
                         TRUE),
                    policy, frequency)
    \cup
    (IF w.faults > 0
     THEN {Returned(Step(Faulted(w),
                         Ev("write", "scaling_setspeed", policy, frequency, "", FALSE),
                         FALSE),
                    policy, FALSE)}
     ELSE {})

\* set_frequency, lines 109-111: the operator is asked whether to go on
ask_continue(w, policy, frequency) ==
    UNION {LET asked == Step(w, EvInput("continue", policy, frequency, answer,
                                        Confirmed(answer)), TRUE)
           IN  IF ~Confirmed(answer)
               THEN {Returned(asked, policy, FALSE)}
               ELSE write_setspeed(asked, policy, frequency)
           : answer \in Answers}

\* set_frequency, lines 104-111: the frequency is checked against the list
check_available(w, policy, frequency) ==
    LET available == get_available_frequencies(w, policy)
    IN  IF available.ret # <<>> /\ frequency \notin Elems(available.ret)
        THEN ask_continue(available, policy, frequency)
        ELSE write_setspeed(available, policy, frequency)

\* lines 98-102, were the result of set_governor not looked at
ensure_userspace_unchecked(w, policy, frequency) ==
    IF w.ret # "userspace"
    THEN UNION {check_available(switched, policy, frequency)
                : switched \in set_governor(w, policy, "userspace")}
    ELSE check_available(w, policy, frequency)

\* set_frequency, lines 98-102: the governor is made userspace
ensure_userspace(w, policy, frequency) ==
    IF w.ret # "userspace"
    THEN UNION {IF ~switched.ret
                THEN {Returned(switched, policy, FALSE)}
                ELSE check_available(switched, policy, frequency)
                : switched \in set_governor(w, policy, "userspace")}
    ELSE check_available(w, policy, frequency)

\* set_frequency(policy, frequency): every way the call can go
set_frequency(w, policy, frequency) ==
    UNION {ensure_userspace(current_gov, policy, frequency)
           : current_gov \in get_current_governor(
                 Step(w, Ev("call", "set_frequency", policy, frequency, "", TRUE), TRUE),
                 policy)}

----------------------------------------------------------------------------
(* show_status, set_all_policies                                           *)

\* show_status(): for each policy the governor, the current frequency and the
\* available frequencies are read and printed; the governor and the frequency
\* printed are not kept
RECURSIVE ShowFrom(_, _, _)
ShowFrom(avail, lg, i) ==
    IF i > Len(POLICIES) THEN lg
    ELSE ShowFrom(avail,
                  lg \o <<Ev("read", "scaling_governor", POLICIES[i], 0, "", TRUE),
                          Ev("read", "scaling_cur_freq", POLICIES[i], 0, "", TRUE),
                          EvAvailable(POLICIES[i], avail[POLICIES[i]])>>,
                  i + 1)

show_status(w) ==
    [w EXCEPT !.log = ShowFrom(w.avail,
                               Append(@, Ev("print", "show_status", "", 0, "", TRUE)), 1),
              !.ret = TRUE]

Min(a, b) == IF a < b THEN a ELSE b

\* lines 175-181, were the loop left at the first set_frequency that fails
RECURSIVE SetAllFromShort(_, _, _)
SetAllFromShort(runs, frequencies, i) ==
    IF i > Min(Len(POLICIES), Len(frequencies)) THEN runs
    ELSE SetAllFromShort(
            UNION {IF ~r.ok THEN {r}
                   ELSE {[q EXCEPT !.ok = q.ret]
                         : q \in set_frequency(r, POLICIES[i], frequencies[i])}
                   : r \in runs},
            frequencies, i + 1)

\* set_all_policies, lines 175-181: the loop over zip(POLICIES, frequencies)
\* from its i-th pair on, in every world of runs; success is kept in w.ok
RECURSIVE SetAllFrom(_, _, _)
SetAllFrom(runs, frequencies, i) ==
    IF i > Min(Len(POLICIES), Len(frequencies)) THEN runs
    ELSE SetAllFrom(
            UNION {{[q EXCEPT !.ok = IF ~q.ret THEN FALSE ELSE r.ok]
                    : q \in set_frequency(r, POLICIES[i], frequencies[i])}
                   : r \in runs},
            frequencies, i + 1)

\* set_all_policies(frequencies): every way the call can go
set_all_policies(w, frequencies) ==
    IF Len(frequencies) # Len(POLICIES)
    THEN {Step(w, Ev("print", "need_3", "", Len(frequencies), "", FALSE), FALSE)}
    ELSE {[q EXCEPT !.ret = q.ok] : q \in SetAllFrom({[w EXCEPT !.ok = TRUE]}, frequencies, 1)}

----------------------------------------------------------------------------
(* The control files the runs start from                                   *)

File(text) == [exists |-> TRUE, text |-> text]

Missing == [exists |-> FALSE, text |-> <<>>]

\* scaling_available_frequencies as the kernel writes it: the values, blank
\* separated, and a newline
Listing(list) == File(JoinInts(list) \o <<" ", "\n">>)

LittleFreqs == <<300000, 691200, 806400, 940800, 1152000, 1324800, 1516800,
                 1651200, 1804800, 1958400>>

BigFreqs == <<691200, 940800, 1228800, 1344000, 1516800, 1651200, 1900800,
              2054400, 2131200, 2400000, 2515200, 2707200>>

PrimeFreqs == <<2400000, 800000, 1200000>>

GovernorNames == {"userspace", "schedutil"}

AvailConfigs ==
    {[p \in Policies |-> CASE p = "policy0" -> Listing(PrimeFreqs)
                           [] p = "policy4" -> Listing(BigFreqs)
                           [] OTHER -> Missing],
     [p \in Policies |-> CASE p = "policy0" -> Listing(LittleFreqs)
                           [] p = "policy4" -> File(<<"\n">>)
                           [] OTHER -> Listing(PrimeFreqs)],
     [p \in Policies |-> CASE p = "policy0" -> File(<<"8", "0", "0", " ", "x", "\n">>)
                           [] p = "policy4" -> Listing(PrimeFreqs)
                           [] OTHER -> Listing(BigFreqs)]}

\* an option that was not given holds None
Absent == [given |-> FALSE, v |-> 0]

Given(v) == [given |-> TRUE, v |-> v]

\* main() has not parsed any option
NoArgs ==
    [status |-> FALSE, set |-> <<>>, policy |-> "", freq |-> Absent, preset |-> "",
     interactive |-> FALSE]

NoCall == [op |-> "none", policy |-> "", freqs |-> <<>>, args |-> NoArgs]

NoRet == [kind |-> "none", ok |-> TRUE, list |-> <<>>]

BoolRet(b) == [kind |-> "bool", ok |-> b, list |-> <<>>]

ListRet(l) == [kind |-> "list", ok |-> TRUE, list |-> l]

\* the manager has been constructed and nothing has run yet
Init ==
    /\ governor \in [Policies -> GovernorNames]
    /\ avail_file \in AvailConfigs
    /\ call = NoCall
    /\ log = <<>>
    /\ ret = NoRet

\* how often the environment may depart from the plain course in one run
MaxFaults == 1

\* the world a run starts in
Start ==
    [gov |-> governor,
     avail |-> [policy0 |-> AvailableOf(avail_file["policy0"]),
                policy4 |-> AvailableOf(avail_file["policy4"]),
                policy7 |-> AvailableOf(avail_file["policy7"])],
     log |-> <<>>, faults |-> MaxFaults, ret |-> TRUE, ok |-> TRUE, freqs |-> <<>>]

\* the process runs one operation and exits
Fresh == call = NoCall

Finish(r, c, val) ==
    /\ governor' = r.gov
    /\ log' = r.log
    /\ ret' = val
    /\ call' = c
    /\ UNCHANGED avail_file

----------------------------------------------------------------------------
(* The interactive flows and main().  A flow is the rest of the run: it    *)
(* ends by leaving its world in the variables.  lines is the set of lines  *)
(* the operator may type at a frequency prompt, c what is kept in call.    *)

\* the lines typed at a numbered menu
ChoiceLines == {<<"1">>, <<"2">>, <<"3">>, <<" ", "4">>, <<"x">>}

\* lines 236-244, were the answer to the summary not looked at
confirm_all_unasked(w, frequencies, c) ==
    \E answer \in Answers :
        LET asked == Step(w, EvInput("confirm", "", 0, answer, Confirmed(answer)), TRUE)
        IN  \E q \in set_all_policies(asked, frequencies) :
                Finish(show_status(q), c, NoRet)

\* set_all_interactive, lines 236-244: the summary is confirmed, then set
confirm_all(w, frequencies, c) ==
    \E answer \in Answers :
        LET asked == Step(w, EvInput("confirm", "", 0, answer, Confirmed(answer)), TRUE)
        IN  IF Confirmed(answer)
            THEN \E q \in set_all_policies(asked, frequencies) :
                    Finish(show_status(q), c, NoRet)
            ELSE Finish(asked, c, NoRet)

\* lines 222-228, were the position counted from 0
resolve_index_from0(available, freq_input) ==
    LET parsed == ParseInt(freq_input)
        idx == parsed.v
    IN  IF parsed.ok /\ 0 <= idx /\ idx < Len(available)
        THEN ToStr(available[idx + 1])
        ELSE freq_input

\* set_all_interactive, lines 222-228: a line that is a position of the list,
\* counted from 1, is replaced by the text of the frequency at that position
resolve_index(available, freq_input) ==
    LET parsed == ParseInt(freq_input)
        idx == parsed.v - 1
    IN  IF parsed.ok /\ 0 <= idx /\ idx < Len(available)
        THEN ToStr(available[idx + 1])
        ELSE freq_input

\* set_all_interactive, lines 212-228: what the line typed for a policy with
\* the list available stands for
resolve_input(available, line) ==
    IF available = <<>> THEN Strip(line) ELSE resolve_index(available, Strip(line))

\* set_all_interactive, lines 211-234: one policy's frequency is asked for;
\* ret = FALSE when the line is no number and the flow returns
ask_frequency(w, policy, line) ==
    LET available == get_available_frequencies(w, policy)
        freq_input == resolve_input(available.ret, line)
        parsed == ParseInt(freq_input)
    IN  IF ~parsed.ok
        THEN Step(available, EvInput("frequency", policy, 0, line, FALSE), FALSE)
        ELSE [Step(available, EvInput("frequency", policy, parsed.v, line, TRUE), TRUE)
              EXCEPT !.freqs = Append(@, parsed.v)]

\* set_all_interactive, lines 210-234: the loop from the i-th policy on, in
\* every way the operator can answer it
RECURSIVE AskAllFrom(_, _, _)
AskAllFrom(w, i, lines) ==
    IF i > Len(POLICIES) THEN {w}
    ELSE UNION {LET asked == ask_frequency(w, POLICIES[i], line)
                IN  IF ~asked.ret THEN {asked} ELSE AskAllFrom(asked, i + 1, lines)
                : line \in lines}

\* set_all_interactive()
set_all_interactive(w, lines, c) ==
    \E asked \in AskAllFrom(Step([w EXCEPT !.freqs = <<>>],
                                 Ev("call", "set_all_interactive", "", 0, "", TRUE), TRUE),
                            1, lines) :
        IF asked.ret
        THEN confirm_all(asked, asked.freqs, c)
        ELSE Finish(asked, c, NoRet)

\* set_single_interactive, lines 263-277: the frequency is asked for and set
single_frequency(w, policy, lines, c) ==
    LET available == get_available_frequencies(w, policy)
    IN  \E line \in lines :
            LET freq_input == Strip(line)
                parsed == ParseInt(freq_input)
            IN  IF ~parsed.ok
                THEN Finish(Step(available, EvInput("frequency", policy, 0, line, FALSE),
                                 TRUE),
                            c, NoRet)
                ELSE \E q \in set_frequency(
                                 Step(available,
                                      EvInput("frequency", policy, parsed.v, line, TRUE),
                                      TRUE),
                                 policy, parsed.v) :
                        Finish(IF q.ret THEN show_status(q) ELSE q, c, NoRet)

\* set_single_interactive()
set_single_interactive(w, lines, c) ==
    \E typed \in ChoiceLines :
        LET parsed == ParseInt(Strip(typed))
            entered == Step(w, Ev("call", "set_single_interactive", "", 0, "", TRUE), TRUE)
        IN  IF parsed.ok /\ 1 <= parsed.v /\ parsed.v <= Len(POLICIES)
            THEN single_frequency(
                     Step(entered, EvInput("policy", POLICIES[parsed.v], 0, typed, TRUE),
                          TRUE),
                     POLICIES[parsed.v], lines, c)
            ELSE Finish(Step(entered, EvInput("policy", "", 0, typed, FALSE), TRUE),
                        c, NoRet)

\* set_preset, lines 294-303: the middle frequency of every policy
RECURSIVE BalancedFrom(_, _)
BalancedFrom(w, i) ==
    IF i > Len(POLICIES) THEN w
    ELSE LET available == get_available_frequencies(w, POLICIES[i])
             mid_idx == Len(available.ret) \div 2
         IN  BalancedFrom([available EXCEPT !.freqs =
                              Append(@, IF available.ret # <<>>
                                        THEN available.ret[mid_idx + 1]
                                        ELSE 1500000)],
                          i + 1)

\* set_preset, lines 306-312: the last frequency of every policy
RECURSIVE PowersaveFrom(_, _)
PowersaveFrom(w, i) ==
    IF i > Len(POLICIES) THEN w
    ELSE LET available == get_available_frequencies(w, POLICIES[i])
         IN  PowersaveFrom([available EXCEPT !.freqs =
                               Append(@, IF available.ret # <<>>
                                         THEN available.ret[Len(available.ret)]
                                         ELSE 800000)],
                           i + 1)

\* set_preset, lines 289-312: the frequencies of the preset chosen
preset_freqs(w, choice) ==
    IF choice = <<"1">> THEN [w EXCEPT !.freqs = <<1958400, 2400000, 2707200>>]
    ELSE IF choice = <<"2">> THEN BalancedFrom(w, 1)
    ELSE PowersaveFrom(w, 1)

\* set_preset, lines 320-328: the summary is confirmed, then set
confirm_preset(w, frequencies, c) ==
    \E answer \in Answers :
        LET asked == Step(w, EvInput("confirm", "", 0, answer, Confirmed(answer)), TRUE)
        IN  IF Confirmed(answer)
            THEN \E q \in set_all_policies(asked, frequencies) :
                    Finish(show_status(q), c, NoRet)
            ELSE Finish(asked, c, NoRet)

\* set_preset()
set_preset(w, lines, c) ==
    \E typed \in ChoiceLines :
        LET choice == Strip(typed)
            entered == Step(w, Ev("call", "set_preset", "", 0, "", TRUE), TRUE)
            asked == [Step(entered,
                           EvInput("preset", "", 0, typed,
                                   choice \in {<<"1">>, <<"2">>, <<"3">>, <<"4">>}),
                           TRUE)
                      EXCEPT !.freqs = <<>>]
        IN  IF choice \in {<<"1">>, <<"2">>, <<"3">>}
            THEN LET chosen == preset_freqs(asked, choice)
                 IN  confirm_preset(chosen, chosen.freqs, c)
            ELSE IF choice = <<"4">>
            THEN set_all_interactive(asked, lines, c)
            ELSE Finish(asked, c, NoRet)

\* interactive_set()
interactive_set(w, lines, c) ==
    \E typed \in ChoiceLines :
        LET choice == Strip(typed)
            shown == show_status(Step(w, Ev("call", "interactive_set", "", 0, "", TRUE),
                                      TRUE))
            asked == Step(shown,
                          EvInput("menu", "", 0, typed,
                                  choice \in {<<"1">>, <<"2">>, <<"3">>, <<"4">>}),
                          TRUE)
        IN  IF choice = <<"1">> THEN set_all_interactive(asked, lines, c)
            ELSE IF choice = <<"2">> THEN set_single_interactive(asked, lines, c)
            ELSE IF choice = <<"3">> THEN set_preset(asked, lines, c)
            ELSE IF choice = <<"4">> THEN Finish(show_status(asked), c, NoRet)
            ELSE Finish(asked, c, NoRet)

----------------------------------------------------------------------------
(* main()                                                                  *)

\* the truth value of an int option: None and 0 are false
TruthyInt(opt) == opt.given /\ opt.v # 0

\* the truth value of a str option: None and '' are false
TruthyStr(opt) == opt # ""

\* the truth value of a list option: None and [] are false
TruthyList(opt) == opt # <<>>

\* lines 415-421, were the middle taken as (len - 1) // 2
RECURSIVE MainBalancedLow(_, _)
MainBalancedLow(w, i) ==
    IF i > Len(POLICIES) THEN w
    ELSE LET available == get_available_frequencies(w, POLICIES[i])
         IN  MainBalancedLow([available EXCEPT !.freqs =
                                 Append(@, IF available.ret # <<>>
                                           THEN available.ret[((Len(available.ret) - 1) \div 2) + 1]
                                           ELSE 1500000)],
                             i + 1)

\* main, lines 415-421
RECURSIVE MainBalancedFrom(_, _)
MainBalancedFrom(w, i) ==
    IF i > Len(POLICIES) THEN w
    ELSE LET available == get_available_frequencies(w, POLICIES[i])
         IN  MainBalancedFrom([available EXCEPT !.freqs =
                                  Append(@, IF available.ret # <<>>
                                            THEN available.ret[(Len(available.ret) \div 2) + 1]
                                            ELSE 1500000)],
                              i + 1)

\* main, lines 424-430
RECURSIVE MainPowersaveFrom(_, _)
MainPowersaveFrom(w, i) ==
    IF i > Len(POLICIES) THEN w
    ELSE LET available == get_available_frequencies(w, POLICIES[i])
         IN  MainPowersaveFrom([available EXCEPT !.freqs =
                                   Append(@, IF available.ret # <<>>
                                             THEN available.ret[Len(available.ret)]
                                             ELSE 800000)],
                               i + 1)

\* main, lines 412-431: the frequencies of --preset
main_preset_freqs(w, preset) ==
    IF preset = "performance" THEN [w EXCEPT !.freqs = <<1958400, 2400000, 2707200>>]
    ELSE IF preset = "balanced" THEN MainBalancedFrom(w, 1)
    ELSE MainPowersaveFrom(w, 1)

\* main, lines 411-432: --preset
main_preset(w, preset, c) ==
    LET chosen == main_preset_freqs([Step(w, Ev("branch", "preset", "", 0, preset, TRUE),
                                          TRUE)
                                     EXCEPT !.freqs = <<>>],
                                    preset)
    IN  \E q \in set_all_policies(chosen, chosen.freqs) : Finish(show_status(q), c, NoRet)

\* main, lines 400-438: the operation the options select
main(w, args, lines, c) ==
    IF args.status
    THEN Finish(show_status(Step(w, Ev("branch", "status", "", 0, "", TRUE), TRUE)),
                c, NoRet)
    ELSE IF TruthyList(args.set)
    THEN \E q \in set_all_policies(Step(w, Ev("branch", "set", "", 0, "", TRUE), TRUE),
                                   args.set) :
            Finish(show_status(q), c, NoRet)
    ELSE IF TruthyStr(args.policy) /\ TruthyInt(args.freq)
    THEN \E q \in set_frequency(Step(w, Ev("branch", "policy_freq", args.policy,
                                           args.freq.v, "", TRUE), TRUE),
                                args.policy, args.freq.v) :
            Finish(IF q.ret THEN show_status(q) ELSE q, c, NoRet)
    ELSE IF TruthyStr(args.preset)
    THEN main_preset(w, args.preset, c)
    ELSE IF args.interactive
    THEN interactive_set(Step(w, Ev("branch", "interactive", "", 0, "", TRUE), TRUE),
                         lines, c)
    ELSE Finish(Step(show_status(Step(w, Ev("branch", "default", "", 0, "", TRUE), TRUE)),
                     Ev("print", "hint", "", 0, "", TRUE), TRUE),
                c, NoRet)

----------------------------------------------------------------------------
(* get_available_frequencies called on its own, on any small file          *)

\* the longest text of a file
MaxText == 4

FileChars == {"1", "2", " ", "\n", "x"}

RECURSIVE TextsUpTo(_)
TextsUpTo(n) ==
    IF n = 0 THEN {<<>>}
    ELSE LET shorter == TextsUpTo(n - 1)
         IN  shorter \cup {Append(t, c) : t \in {u \in shorter : Len(u) = n - 1},
                                          c \in FileChars}

InitAvail ==
    /\ governor \in [Policies -> {"schedutil"}]
    /\ \E q \in Policies, f \in {Missing} \cup {File(t) : t \in TextsUpTo(MaxText)} :
          avail_file = [p \in Policies |-> IF p = q THEN f ELSE Missing]
    /\ call = NoCall
    /\ log = <<>>
    /\ ret = NoRet

GetAvailableFrequenciesCall ==
    /\ Fresh
    /\ \E policy \in Policies :
          LET r == get_available_frequencies(Start, policy)
          IN  Finish(r, [NoCall EXCEPT !.op = "get_available_frequencies",
                                       !.policy = policy],
                     ListRet(r.ret))

SpecAvail == InitAvail /\ [][GetAvailableFrequenciesCall]_vars

----------------------------------------------------------------------------
(* set_frequency and set_all_policies called on their own                  *)

\* frequencies asked for: listed ones and unlisted ones
CallFreqs == {800000, 1958400, 2400000}

SetFrequencyCall ==
    /\ Fresh
    /\ LET w == Start
       IN  \E policy \in Policies, frequency \in CallFreqs :
              \E r \in set_frequency(w, policy, frequency) :
                  Finish(r, [NoCall EXCEPT !.op = "set_frequency", !.policy = policy,
                                           !.freqs = <<frequency>>],
                         BoolRet(r.ret))

SpecSetFrequency == Init /\ [][SetFrequencyCall]_vars

FreqLists ==
    {<<1958400, 2400000, 2707200>>, <<800000, 800000, 800000>>,
     <<800000, 2400000>>, <<1958400, 2400000, 2707200, 800000>>, <<>>}

SetAllPoliciesCall ==
    /\ Fresh
    /\ LET w == Start
       IN  \E frequencies \in FreqLists :
              \E r \in set_all_policies(w, frequencies) :
                  Finish(r, [NoCall EXCEPT !.op = "set_all_policies",
                                           !.freqs = frequencies],
                         BoolRet(r.ret))

SpecSetAll == Init /\ [][SetAllPoliciesCall]_vars

----------------------------------------------------------------------------
(* The interactive flows called on their own                               *)

\* the lines typed at a frequency prompt: no position, a position in the list,
\* a position past the ten that are shown, a frequency, and no number at all
InputLines ==
    {<<"0">>, <<"1">>, <<"1", "1">>, <<" ", "8", "0", "0", "0", "0", "0">>, <<"x">>}

SetAllInteractiveCall ==
    /\ Fresh
    /\ set_all_interactive(Start, InputLines, [NoCall EXCEPT !.op = "set_all_interactive"])

SetSingleInteractiveCall ==
    /\ Fresh
    /\ set_single_interactive(Start, InputLines,
                              [NoCall EXCEPT !.op = "set_single_interactive"])

\* the lines typed at a frequency prompt of the preset flow's custom option
PresetLines == {<<"1", "1">>, <<"x">>}

SetPresetCall ==
    /\ Fresh
    /\ set_preset(Start, PresetLines, [NoCall EXCEPT !.op = "set_preset"])

NextInteractive == SetAllInteractiveCall \/ SetSingleInteractiveCall \/ SetPresetCall

SpecInteractive == Init /\ [][NextInteractive]_vars

----------------------------------------------------------------------------
(* main() run on every choice of options                                   *)

ArgSets ==
    [status : BOOLEAN,
     set : {<<>>, <<1958400, 2400000, 2707200>>},
     policy : {"", "policy0", "policy7"},
     freq : {Absent, Given(0), Given(800000), Given(1958400)},
     preset : {"", "performance", "balanced", "powersave"},
     interactive : BOOLEAN]

\* the lines typed at a frequency prompt of the menu main() starts
MainLines == {<<"1">>, <<"x">>}

MainCall ==
    /\ Fresh
    /\ LET w == Start
       IN  \E args \in ArgSets :
              main(w, args, MainLines, [NoCall EXCEPT !.op = "main", !.args = args])

Spec == Init /\ [][MainCall]_vars

----------------------------------------------------------------------------
(* What a run left in the log                                              *)

Pos == 1..Len(log)

IsSetFrequencyCall(e) == e.op = "call" /\ e.file = "set_frequency"

IsSetFrequencyReturn(e) == e.op = "return" /\ e.file = "set_frequency"

\* the calls of set_frequency the run made, and what they returned, in order
FrequencyCalls == SelectSeq(log, IsSetFrequencyCall)

FrequencyReturns == SelectSeq(log, IsSetFrequencyReturn)

\* where the run read, and where it attempted to write, a control file
ReadsOf(file) == {i \in Pos : log[i].op = "read" /\ log[i].file = file}

WritesOf(file) == {i \in Pos : log[i].op = "write" /\ log[i].file = file}

AnyWrites == {i \in Pos : log[i].op = "write"}

\* where the operator answered the prompt named
InputsOf(prompt) == {i \in Pos : log[i].op = "input" /\ log[i].file = prompt}

\* the list get_available_frequencies gave the run for the policy (the files
\* do not change during a run: every read of a policy's file gives the same)
ListRead(policy) ==
    log[CHOOSE i \in ReadsOf("scaling_available_frequencies") :
            log[i].policy = policy].list

----------------------------------------------------------------------------
(* get_available_frequencies                                               *)

\* the file holds one or more blank-separated decimal integers
Populated(file) ==
    /\ file.exists
    /\ \A i \in 1..Len(file.text) : file.text[i] \in DigitSet \cup {" ", "\n"}
    /\ \E i \in 1..Len(file.text) : file.text[i] \in DigitSet

\* the number of tokens of the text: the places where a run of digits starts
TokenCount(text) ==
    Cardinality({i \in 1..Len(text) :
                    text[i] \in DigitSet /\ (i = 1 \/ text[i - 1] \notin DigitSet)})

AvailRun == call.op = "get_available_frequencies" /\ Populated(avail_file[call.policy])

\* C6, as the code has it: for a file that holds one or more blank-separated
\* decimal integers, repeated ones included, get_available_frequencies returns
\* a list sorted in descending order in which equal values stand side by side
\* (each element is greater than or equal to the next), and whose length is
\* the number of tokens of the file.
C6_SortedDescendingKeepsRepeats ==
    AvailRun =>
        /\ ret.kind = "list"
        /\ Len(ret.list) = TokenCount(avail_file[call.policy].text)
        /\ \A i \in 1..(Len(ret.list) - 1) : ret.list[i] >= ret.list[i + 1]

\* C6, as the claim states it: the list is strictly descending (each element
\* greater than the next) and as long as the number of tokens.
C6_StrictlyDescending ==
    AvailRun =>
        /\ ret.kind = "list"
        /\ Len(ret.list) = TokenCount(avail_file[call.policy].text)
        /\ \A i \in 1..(Len(ret.list) - 1) : ret.list[i] > ret.list[i + 1]

\* a file with a repeated value was read: both tokens are in the list
C6_RepeatedValueListed ==
    /\ AvailRun
    /\ TokenCount(avail_file[call.policy].text) = 2
    /\ Len(ret.list) = 2
    /\ ret.list[1] = ret.list[2]

----------------------------------------------------------------------------
(* set_frequency                                                           *)

SetFrequencyRun == call.op = "set_frequency"

\* C1: in set_frequency, scaling_setspeed is written only after, in the same
\* call, the governor was read as "userspace" or exactly one write of
\* "userspace" to scaling_governor succeeded; when the governor read is not
\* "userspace" (an unreadable governor included) exactly one governor write is
\* attempted, after the read and before any setspeed write; when that write
\* fails the call returns False and scaling_setspeed is not written.
C1_GovernorBeforeSetspeed ==
    SetFrequencyRun =>
        /\ \A s \in WritesOf("scaling_setspeed") :
              \/ \E g \in ReadsOf("scaling_governor") :
                    g < s /\ log[g].ok /\ log[g].text = "userspace"
              \/ Cardinality({g \in WritesOf("scaling_governor") :
                                 g < s /\ log[g].ok /\ log[g].text = "userspace"}) = 1
        /\ \A g \in ReadsOf("scaling_governor") :
              log[g].text # "userspace" =>
                  /\ Cardinality(WritesOf("scaling_governor")) = 1
                  /\ \A x \in WritesOf("scaling_governor") :
                        /\ g < x
                        /\ log[x].text = "userspace"
                        /\ log[x].policy = call.policy
                        /\ \A s \in WritesOf("scaling_setspeed") : x < s
        /\ \A g \in ReadsOf("scaling_governor") :
              log[g].text = "userspace" => WritesOf("scaling_governor") = {}
        /\ \A x \in WritesOf("scaling_governor") :
              ~log[x].ok => ret = BoolRet(FALSE) /\ WritesOf("scaling_setspeed") = {}

\* the governor could not be read, was switched, and the frequency was written
C1_UnreadableGovernorSwitched ==
    /\ SetFrequencyRun
    /\ \E g \in ReadsOf("scaling_governor"), x \in WritesOf("scaling_governor"),
          s \in WritesOf("scaling_setspeed") :
          g < x /\ x < s /\ ~log[g].ok /\ log[g].text = NONE /\ log[x].ok

\* the operator was asked whether to go on with an unlisted frequency and
\* answered something that is not taken as "y"
Declined ==
    /\ \E a \in InputsOf("continue") : ~Confirmed(log[a].line)
    /\ ListRead(call.policy) # <<>>
    /\ call.freqs[1] \notin Elems(ListRead(call.policy))

\* C2: when set_frequency is called with a frequency that is not in a
\* non-empty available list and the operator declines, the call returns False
\* and writes no control file: neither scaling_governor nor scaling_setspeed.
C2_DeclinedWritesNothing ==
    (SetFrequencyRun /\ Declined) => (ret = BoolRet(FALSE) /\ AnyWrites = {})

\* C7: in set_frequency, once scaling_setspeed is written without an
\* exception the call returns True, whatever the re-read of scaling_cur_freq
\* gives (the same value, another value, or None); with the write attempted,
\* the call returns False only when the write itself raised.
C7_TrueOnceWritten ==
    SetFrequencyRun =>
        \A s \in WritesOf("scaling_setspeed") :
            /\ log[s].ok =>
                  /\ ret = BoolRet(TRUE)
                  /\ \E r \in ReadsOf("scaling_cur_freq") : r > s
            /\ ~log[s].ok => ret = BoolRet(FALSE)

\* the frequency read back is not the one written, and the call returned True
C7_MismatchReturnsTrue ==
    /\ SetFrequencyRun
    /\ ret = BoolRet(TRUE)
    /\ \E s \in WritesOf("scaling_setspeed"), r \in ReadsOf("scaling_cur_freq") :
          s < r /\ log[s].ok /\ (~log[r].ok \/ log[r].hz # call.freqs[1])

----------------------------------------------------------------------------
(* set_all_policies                                                        *)

SetAllRun == call.op = "set_all_policies"

\* C3: set_all_policies with exactly 3 frequencies calls set_frequency once
\* for policy0, policy4 and policy7, in that order, each with the frequency at
\* its position; all three calls are made even when an earlier one returned
\* False, and the result is True exactly when all three returned True.  With
\* any other length it returns False and reads and writes no control file.
C3_AllThreeAttempted ==
    SetAllRun =>
        IF Len(call.freqs) = 3
        THEN /\ Len(FrequencyCalls) = 3
             /\ Len(FrequencyReturns) = 3
             /\ \A i \in 1..3 :
                   /\ FrequencyCalls[i].policy = <<"policy0", "policy4", "policy7">>[i]
                   /\ FrequencyCalls[i].hz = call.freqs[i]
                   /\ FrequencyReturns[i].policy = FrequencyCalls[i].policy
             /\ ret = BoolRet(\A i \in 1..3 : FrequencyReturns[i].ok)
        ELSE /\ ret = BoolRet(FALSE)
             /\ \A i \in Pos : log[i].op \notin {"read", "write", "call", "input"}

\* the first call returned False, the other two were made and returned True
C3_GoesOnAfterFailure ==
    /\ SetAllRun
    /\ Len(FrequencyReturns) = 3
    /\ ~FrequencyReturns[1].ok
    /\ FrequencyReturns[2].ok
    /\ FrequencyReturns[3].ok
    /\ ret = BoolRet(FALSE)

----------------------------------------------------------------------------
(* main                                                                    *)

MainRun == call.op = "main"

Branches == {i \in Pos : log[i].op = "branch"}

StatusShown == {i \in Pos : log[i].op = "print" /\ log[i].file = "show_status"}

\* --policy NAME and --freq HZ were both given, and neither --status nor --set
PolicyAndFreqGiven ==
    /\ MainRun
    /\ ~call.args.status
    /\ call.args.set = <<>>
    /\ call.args.policy # ""
    /\ call.args.freq.given

\* C4: one branch runs, by the order status, set, policy and freq, preset,
\* interactive, default; whenever --policy NAME and --freq HZ are both given,
\* for every integer HZ, and neither --status nor --set is, the branch is the
\* set of the one domain NAME to HZ, and the status is shown afterwards only
\* if that set succeeded.
C4_PolicyFreqSetsOneDomain ==
    /\ MainRun => Cardinality(Branches) = 1 /\ log[1].op = "branch"
    /\ (MainRun /\ call.args.status) => log[1].file = "status"
    /\ (MainRun /\ ~call.args.status /\ call.args.set # <<>>) => log[1].file = "set"
    /\ PolicyAndFreqGiven =>
          /\ log[1].file = "policy_freq"
          /\ Len(FrequencyCalls) = 1
          /\ FrequencyCalls[1].policy = call.args.policy
          /\ FrequencyCalls[1].hz = call.args.freq.v
          /\ Len(FrequencyReturns) = 1
          /\ (StatusShown # {}) = FrequencyReturns[1].ok

\* the frequencies the run passed on to set_frequency, in order
PassedFreqs == [i \in 1..Len(FrequencyCalls) |-> FrequencyCalls[i].hz]

Domains == <<"policy0", "policy4", "policy7">>

\* what a preset is to give for one domain's available list
BalancedOf(list) == IF list = <<>> THEN 1500000 ELSE list[(Len(list) \div 2) + 1]

PowersaveOf(list) == IF list = <<>> THEN 800000 ELSE list[Len(list)]

PresetOf(kind) ==
    IF kind = "performance" THEN <<1958400, 2400000, 2707200>>
    ELSE IF kind = "balanced" THEN [i \in 1..3 |-> BalancedOf(ListRead(Domains[i]))]
    ELSE [i \in 1..3 |-> PowersaveOf(ListRead(Domains[i]))]

\* the preset a line typed at the preset menu selects
KindOfChoice(line) ==
    IF Strip(line) = <<"1">> THEN "performance"
    ELSE IF Strip(line) = <<"2">> THEN "balanced"
    ELSE "powersave"

\* a powersave frequency is the lowest of its domain's list
LowestPassed(kind) ==
    (kind = "powersave" /\ PassedFreqs # <<>>) =>
        \A i \in 1..3 :
            \A j \in 1..Len(ListRead(Domains[i])) :
                PassedFreqs[i] <= ListRead(Domains[i])[j]

\* C5: the frequencies a preset passes to set_all_policies, for --preset and
\* for the preset menu alike: performance is the literal 1958400, 2400000,
\* 2707200 whatever the lists are; balanced is, per domain, the element at
\* index len // 2 of the descending available list, or 1500000 when the list
\* is empty; powersave is the last element of the list, which is its lowest,
\* or 800000 when the list is empty.  (The menu passes them on once the
\* summary is confirmed.)
C5_PresetFrequencies ==
    MainRun =>
        /\ \A b \in Branches :
              log[b].file = "preset" =>
                  /\ PassedFreqs = PresetOf(log[b].text)
                  /\ LowestPassed(log[b].text)
        /\ \A m \in InputsOf("preset") :
              Strip(log[m].line) \in {<<"1">>, <<"2">>, <<"3">>} =>
                  /\ Cardinality(InputsOf("confirm")) = 1
                  /\ \A a \in InputsOf("confirm") :
                        PassedFreqs = IF Confirmed(log[a].line)
                                      THEN PresetOf(KindOfChoice(log[m].line))
                                      ELSE <<>>
                  /\ LowestPassed(KindOfChoice(log[m].line))

\* the balanced preset of the menu was confirmed for a domain with a list of
\* odd length, one with a list of even length and one with no list
C5_BalancedFromMenu ==
    /\ MainRun
    /\ \E m \in InputsOf("preset") : Strip(log[m].line) = <<"2">>
    /\ Len(ListRead("policy0")) = 3
    /\ Len(ListRead("policy4")) = 12
    /\ ListRead("policy7") = <<>>
    /\ PassedFreqs = <<1200000, 1651200, 1500000>>

----------------------------------------------------------------------------
(* The interactive flows                                                   *)

\* the run asked for the frequency of every policy in turn
SetAllFlowRun ==
    \E i \in Pos : log[i].op = "call" /\ log[i].file = "set_all_interactive"

SetSingleFlowRun == call.op = "set_single_interactive"

\* how many entries of an available list the flows display
Displayed == 10

\* the frequency an integer k typed for a list stands for, when the positions
\* 1..last of the list are taken as positions and every other integer as Hz
TargetOf(list, k, last) == IF 1 <= k /\ k <= last THEN list[k] ELSE k

\* every set_frequency of the run is for a frequency resolved at a prompt
PassedAreResolved ==
    \A j \in 1..Len(FrequencyCalls) :
        \E i \in InputsOf("frequency") :
            /\ log[i].ok
            /\ log[i].policy = FrequencyCalls[j].policy
            /\ log[i].hz = FrequencyCalls[j].hz

\* C8, as the code has it: in the set-all flow, for a domain with a non-empty
\* available list, an integer k typed is taken as a position counted from 1
\* exactly when 1 <= k <= len(available), in the whole list and not only in
\* the ten entries displayed, and then stands for the k-th element of the
\* descending list; every other integer is taken as a frequency in Hz.
C8_IndexWithinList ==
    SetAllFlowRun =>
        /\ \A i \in InputsOf("frequency") :
              LET list == ListRead(log[i].policy)
                  k == ParseInt(log[i].line)
              IN  (list # <<>> /\ k.ok) =>
                      /\ log[i].ok
                      /\ log[i].hz = TargetOf(list, k.v, Len(list))
        /\ PassedAreResolved

\* C8, as the claim states it: k is taken as a position exactly when
\* 1 <= k <= min(10, len(available)), one of the entries displayed.
C8_IndexWithinDisplayed ==
    SetAllFlowRun =>
        /\ \A i \in InputsOf("frequency") :
              LET list == ListRead(log[i].policy)
                  k == ParseInt(log[i].line)
              IN  (list # <<>> /\ k.ok) =>
                      /\ log[i].ok
                      /\ log[i].hz = TargetOf(list, k.v, Min(Displayed, Len(list)))
        /\ PassedAreResolved

\* 11 was typed for a list of 12: the eleventh entry, which is not displayed,
\* was taken and passed on to set_frequency
C8_EleventhEntryTaken ==
    /\ SetAllFlowRun
    /\ \E i \in InputsOf("frequency") :
          /\ ParseInt(log[i].line) = [ok |-> TRUE, v |-> 11]
          /\ Len(ListRead(log[i].policy)) = 12
          /\ log[i].hz = ListRead(log[i].policy)[11]
          /\ \E j \in 1..Len(FrequencyCalls) :
                /\ FrequencyCalls[j].policy = log[i].policy
                /\ FrequencyCalls[j].hz = log[i].hz

\* C9: the set-one-domain flow takes the line typed for a frequency as the
\* per-domain step of the set-all flow does: for the same domain, list and
\* line both resolve to the same frequency, or both reject the line.
C9_SingleResolvesAsSetAll ==
    SetSingleFlowRun =>
        \A i \in InputsOf("frequency") :
            LET target == ParseInt(resolve_input(ListRead(log[i].policy), log[i].line))
            IN  /\ log[i].ok = target.ok
                /\ target.ok =>
                      /\ log[i].hz = target.v
                      /\ PassedFreqs = <<target.v>>

\* C10: in the set-all flow and in the preset flow, its custom option
\* included, no control file is written before the summary is answered, and
\* none is written at all unless the answer is "y" (as the code compares it:
\* stripped and in lower case); a frequency line that is no integer ends the
\* flow with no write.
C10_NoWriteUnconfirmed ==
    call.op \in {"set_all_interactive", "set_preset"} =>
        /\ \A x \in AnyWrites :
              \E a \in InputsOf("confirm") :
                  a < x /\ Lower(Strip(log[a].line)) = <<"y">>
        /\ Cardinality(InputsOf("confirm")) <= 1
        /\ (\E a \in InputsOf("confirm") : Lower(Strip(log[a].line)) # <<"y">>) =>
              AnyWrites = {}
        /\ (\E i \in InputsOf("frequency") : ~ParseInt(log[i].line).ok) =>
              AnyWrites = {} /\ InputsOf("confirm") = {}

\* the custom option of the preset flow: the summary was answered "Y " and
\* the control files were written afterwards
C10_CustomConfirmedThenWritten ==
    /\ call.op = "set_preset"
    /\ SetAllFlowRun
    /\ \E a \in InputsOf("confirm") :
          /\ log[a].line = <<"Y", " ">>
          /\ \E x \in WritesOf("scaling_governor") : a < x
          /\ \E x \in WritesOf("scaling_setspeed") : a < x

====
